---- MODULE Spec2Model ----
(***************************************************************************)
(* Model of accelerate's launch command (src/accelerate/commands/launch.py) *)
(* One behaviour is one invocation of launch_command(args): sanity check,   *)
(* defaults resolution, launcher selection, then the selected launcher.     *)
(*                                                                          *)
(* Encoding of Python values:                                               *)
(*   - an optional value is a sequence: <<>> is None, <<v>> is v;           *)
(*   - the args Namespace is a record; an attribute the Namespace does not  *)
(*     have is a field outside DOMAIN args (reading it raises               *)
(*     AttributeError);                                                     *)
(*   - a list of strings is a sequence of strings;                          *)
(*   - an environment mapping is a function from variable names to strings; *)
(*     mappings live in env_heap and are referred to by index, so that a    *)
(*     copy and an alias are different things.                              *)
(***************************************************************************)
EXTENDS Integers, Sequences, FiniteSets, TLC

VARIABLES
    pc,                     \* position inside launch_command
    cli,                    \* the Namespace launch_command was called with
    args,                   \* the Namespace as mutated by launch_command
    default_config_exists,  \* os.path.isfile(default_config_file)
    defaults,               \* the LaunchConfig loaded, <<>> while none is
    config_loads,           \* number of LaunchConfig.from_json_file calls
    launched,               \* launchers called, in order
    env_heap,               \* environment mappings; env_heap[OsEnviron] is os.environ
    environ0,               \* os.environ when launch_command was called
    cmd,                    \* the launcher's local command list
    children,               \* subprocess.Popen calls: [cmd, env] each
    returncode,             \* process.returncode after wait(), <<>> before
    error,                  \* the exception that left launch_command
    sys_argv,               \* sys.argv
    sys_path,               \* entries appended to sys.path
    mod,                    \* the training module imported by tpu_launcher
    xmp_spawned             \* xmp.spawn calls: nprocs each

vars == <<pc, cli, args, default_config_exists, defaults, config_loads, launched,
          env_heap, environ0, cmd, children, returncode, error, sys_argv,
          sys_path, mod, xmp_spawned>>

-----------------------------------------------------------------------------
(* Bounds of the inputs *)

MaxNumProcesses == 2
MaxArgs == 2
MaxMachines == 2
MaxExitCode == 2

None == <<>>
Some(v) == <<v>>

ArgTokens == {"--epochs", "3"}
ScriptArgLists == UNION {[1..n -> ArgTokens] : n \in 0..MaxArgs}
Scripts == {"train.py", "foo/bar.py"}
NumProcessesValues == (-1)..MaxNumProcesses
PersistedNumProcesses == 1..MaxNumProcesses
Addresses == {"10.0.0.1"}
Ports == {29500}
ExitCodes == 0..MaxExitCode
Environs == {[k \in {"PATH"} |-> "/usr/bin"],
             [k \in {"PATH", "USE_FP16"} |-> IF k = "PATH" THEN "/usr/bin" ELSE "1"]}

-----------------------------------------------------------------------------
(* Values of the collaborators *)

sys_executable == "python"
OsEnviron == 1

DistributedTypes == {"NO", "MULTI_GPU", "TPU"}

LaunchConfigs ==
    [distributed_type : DistributedTypes,
     num_processes : PersistedNumProcesses,
     fp16 : BOOLEAN]

\* str(bool), str(int) and str of an optional int
StrBool(b) == IF b THEN "True" ELSE "False"
StrInt(n) == ToString(n)
StrOpt(o) == IF o = None THEN "None" ELSE StrInt(o[1])

\* Path(training_script).parent.resolve() and .stem, for the scripts of the model
PathParentResolved(s) == IF s = "foo/bar.py" THEN "/cwd/foo" ELSE "/cwd"
PathStem(s) == IF s = "foo/bar.py" THEN "bar" ELSE "train"

NoError == [type |-> "none", returncode |-> 0, cmd |-> <<>>]
ValueError == [type |-> "ValueError", returncode |-> 0, cmd |-> <<>>]
AttributeError == [type |-> "AttributeError", returncode |-> 0, cmd |-> <<>>]
ImportError == [type |-> "ImportError", returncode |-> 0, cmd |-> <<>>]

-----------------------------------------------------------------------------
(* launch_command_parser: the Namespaces parse_args can produce *)

ParserNamespaces ==
    [config_file : {None, Some("cfg.json")},
     multi_gpu : BOOLEAN,
     tpu : BOOLEAN,
     fp16 : BOOLEAN,
     num_processes : {None} \cup {Some(n) : n \in NumProcessesValues},
     training_script : Scripts,
     training_script_args : ScriptArgLists]

\* Namespaces a caller of launch_command builds with the multi-node fields
Topologies ==
    {[main_process_ip |-> None, main_process_port |-> None,
      num_machines |-> 1, machine_rank |-> 0]}
    \cup
    {[main_process_ip |-> Some(ip), main_process_port |-> Some(p),
      num_machines |-> m, machine_rank |-> r] :
        ip \in Addresses, p \in Ports,
        m \in 1..MaxMachines, r \in 0..(MaxMachines - 1)}

WithTopology(a, t) ==
    [k \in DOMAIN a \cup DOMAIN t |-> IF k \in DOMAIN t THEN t[k] ELSE a[k]]

CallerNamespaces ==
    {WithTopology(a, t) : a \in ParserNamespaces,
                          t \in {u \in Topologies : u.machine_rank < u.num_machines}}

HasAttr(a, name) == name \in DOMAIN a

-----------------------------------------------------------------------------
(* launch_command *)

\* the sanity check left out
SanityCheckSkipped(a) == FALSE

SanityCheckFails(a) == a.multi_gpu /\ a.tpu

ShouldLoadConfig(a, exists) == a.config_file # None \/ exists

ResolvedMultiGpu(a, d) ==
    IF ~a.multi_gpu /\ ~a.tpu THEN d.distributed_type = "MULTI_GPU" ELSE a.multi_gpu

ResolvedTpu(a, d) ==
    IF ~a.multi_gpu /\ ~a.tpu THEN d.distributed_type = "TPU" ELSE a.tpu

\* the persisted process count taken whatever the command line says
ResolvedNumProcessesPersisted(a, d) == Some(d.num_processes)

ResolvedNumProcesses(a, d) ==
    IF a.num_processes = None THEN Some(d.num_processes) ELSE a.num_processes

ResolvedFp16(a, d) == IF ~a.fp16 THEN d.fp16 ELSE a.fp16

DefaultNumProcesses == 1

BuiltinNumProcesses(a) ==
    IF a.num_processes = None THEN Some(DefaultNumProcesses) ELSE a.num_processes

\* the multi_gpu branch of the selection left out
LauncherWithoutMultiGpu(a) == IF a.tpu THEN "tpu_launcher" ELSE "simple_launcher"

Launcher(a) ==
    IF a.multi_gpu THEN "multi_gpu_launcher"
    ELSE IF a.tpu THEN "tpu_launcher"
    ELSE "simple_launcher"

-----------------------------------------------------------------------------
(* the launchers *)

\* the script arguments not appended
SimpleCmdWithoutArgs(a) == <<sys_executable, a.training_script>>

SimpleCmd(a) == <<sys_executable, a.training_script>> \o a.training_script_args

MultiGpuCmd(a) ==
    <<sys_executable, "-m", "torch.distributed.launch">>
    \o <<"--nproc_per_node", StrOpt(a.num_processes)>>
    \o (IF a.main_process_ip # None
        THEN <<"--nproc_per_node", StrInt(a.num_processes[1] \div a.num_machines),
               "--nnodes", StrInt(a.num_machines),
               "--node_rank", StrInt(a.machine_rank),
               "--master_addr", a.main_process_ip[1],
               "--node_rank", StrOpt(a.main_process_port)>>
        ELSE <<"--nproc_per_node", StrOpt(a.num_processes)>>)
    \o <<a.training_script>>
    \o a.training_script_args

EnvSet(m, key, value) ==
    [k \in DOMAIN m \cup {key} |-> IF k = key THEN value ELSE m[k]]

\* current_env = os.environ, without the copy
LaunchEnvShared(h, a) ==
    [heap |-> [h EXCEPT ![OsEnviron] = EnvSet(@, "USE_FP16", StrBool(a.fp16))],
     ref |-> OsEnviron]

\* current_env = os.environ.copy(); current_env["USE_FP16"] = str(args.fp16)
LaunchEnv(h, a) ==
    LET h1 == Append(h, h[OsEnviron])
        ref == Len(h1)
    IN [heap |-> [h1 EXCEPT ![ref] = EnvSet(@, "USE_FP16", StrBool(a.fp16))],
        ref |-> ref]

\* subprocess.Popen(cmd, env=current_env): the child gets the mapping's contents
Popen(c, h, ref) == [cmd |-> c, env |-> h[ref]]

CalledProcessError(code, c) ==
    [type |-> "CalledProcessError", returncode |-> code, cmd |-> c]

\* only exit statuses above 1 reported
ShouldRaiseAboveOne(code) == code > 1

ShouldRaise(code) == code # 0

\* the core-count flag not appended
TpuArgvWithoutCores(a) == <<a.training_script>> \o a.training_script_args

TpuArgv(a) ==
    <<a.training_script>> \o a.training_script_args
    \o <<"--tpu_num_cores", StrOpt(a.num_processes)>>

ModuleStates == {"with_mp_fn", "without_mp_fn", "unloadable"}

\* importlib.import_module(mod_name): the module object, named after the script
ImportedModule(script, state) ==
    [name |-> PathStem(script), has_mp_fn |-> state = "with_mp_fn"]

HasMpFn(m) == m # None /\ m[1].has_mp_fn

-----------------------------------------------------------------------------
(* Initial states: launch_command is about to be called *)

Init ==
    /\ pc = "sanity_check"
    /\ cli \in ParserNamespaces \cup CallerNamespaces
    /\ args = cli
    /\ default_config_exists \in BOOLEAN
    /\ defaults = None
    /\ config_loads = 0
    /\ launched = <<>>
    /\ environ0 \in Environs
    /\ env_heap = <<environ0>>
    /\ cmd = <<>>
    /\ children = <<>>
    /\ returncode = None
    /\ error = NoError
    /\ sys_argv = <<"accelerate", "launch">>
    /\ sys_path = <<>>
    /\ mod = None
    /\ xmp_spawned = <<>>

-----------------------------------------------------------------------------
(* Actions *)

\* launch.py 113-115
SanityCheck ==
    /\ pc = "sanity_check"
    /\ IF SanityCheckFails(args)
       THEN pc' = "failed" /\ error' = ValueError
       ELSE pc' = "get_defaults" /\ error' = error
    /\ UNCHANGED <<cmd, cli, args, default_config_exists, defaults, config_loads,
                   launched, env_heap, environ0, children, returncode,
                   sys_argv, sys_path, mod, xmp_spawned>>

\* launch.py 117-129
GetDefaults ==
    /\ pc = "get_defaults"
    /\ IF ShouldLoadConfig(args, default_config_exists)
       THEN \E d \in LaunchConfigs :
                /\ defaults' = Some(d)
                /\ config_loads' = config_loads + 1
                /\ args' = [args EXCEPT
                                !.multi_gpu = ResolvedMultiGpu(args, d),
                                !.tpu = ResolvedTpu(args, d),
                                !.num_processes = ResolvedNumProcesses(args, d),
                                !.fp16 = ResolvedFp16(args, d)]
       ELSE /\ args' = [args EXCEPT !.num_processes = BuiltinNumProcesses(args)]
            /\ UNCHANGED <<defaults, config_loads>>
    /\ pc' = "use_launcher"
    /\ UNCHANGED <<cmd, cli, default_config_exists, launched, env_heap, environ0,
                   children, returncode, error, sys_argv, sys_path, mod,
                   xmp_spawned>>

\* launch.py 131-137
UseLauncher ==
    /\ pc = "use_launcher"
    /\ launched' = Append(launched, Launcher(args))
    /\ pc' = Launcher(args)
    /\ UNCHANGED <<cmd, cli, args, default_config_exists, defaults, config_loads,
                   env_heap, environ0, children, returncode, error, sys_argv,
                   sys_path, mod, xmp_spawned>>

\* launch.py 53-60
SimpleLaunch ==
    /\ pc = "simple_launcher"
    /\ LET e == LaunchEnv(env_heap, args)
       IN /\ cmd' = SimpleCmd(args)
          /\ env_heap' = e.heap
          /\ children' = Append(children, Popen(cmd', e.heap, e.ref))
    /\ pc' = "simple_wait"
    /\ UNCHANGED <<cli, args, default_config_exists, defaults, config_loads,
                   launched, environ0, returncode, error, sys_argv, sys_path,
                   mod, xmp_spawned>>

\* launch.py 61-63
SimpleWait ==
    /\ pc = "simple_wait"
    /\ \E code \in ExitCodes :
        /\ returncode' = Some(code)
        /\ IF ShouldRaise(code)
           THEN /\ error' = CalledProcessError(code, cmd)
                /\ pc' = "failed"
           ELSE /\ error' = error
                /\ pc' = "done"
    /\ UNCHANGED <<cmd, cli, args, default_config_exists, defaults, config_loads,
                   launched, env_heap, environ0, children, sys_argv, sys_path,
                   mod, xmp_spawned>>

\* launch.py 66-92
MultiGpuLaunch ==
    /\ pc = "multi_gpu_launcher"
    /\ IF ~HasAttr(args, "main_process_ip")
       THEN /\ error' = AttributeError
            /\ pc' = "failed"
            /\ UNCHANGED <<cmd, env_heap, children>>
       ELSE /\ LET e == LaunchEnv(env_heap, args)
               IN /\ cmd' = MultiGpuCmd(args)
                  /\ env_heap' = e.heap
                  /\ children' = Append(children, Popen(cmd', e.heap, e.ref))
            /\ pc' = "multi_gpu_wait"
            /\ error' = error
    /\ UNCHANGED <<cli, args, default_config_exists, defaults, config_loads,
                   launched, environ0, returncode, sys_argv, sys_path, mod,
                   xmp_spawned>>

\* launch.py 93-95
MultiGpuWait ==
    /\ pc = "multi_gpu_wait"
    /\ \E code \in ExitCodes :
        /\ returncode' = Some(code)
        /\ IF ShouldRaise(code)
           THEN /\ error' = CalledProcessError(code, cmd)
                /\ pc' = "failed"
           ELSE /\ error' = error
                /\ pc' = "done"
    /\ UNCHANGED <<cmd, cli, args, default_config_exists, defaults, config_loads,
                   launched, env_heap, environ0, children, sys_argv, sys_path,
                   mod, xmp_spawned>>

\* launch.py 98-105
TpuImport ==
    /\ pc = "tpu_launcher"
    /\ \E xla_installed \in BOOLEAN, m \in ModuleStates :
        IF ~xla_installed
        THEN /\ error' = ImportError
             /\ pc' = "failed"
             /\ UNCHANGED <<sys_path, mod>>
        ELSE /\ sys_path' = Append(sys_path, PathParentResolved(args.training_script))
             /\ IF m = "unloadable"
                THEN error' = ImportError /\ pc' = "failed" /\ mod' = mod
                ELSE /\ error' = error
                     /\ pc' = "tpu_spawn"
                     /\ mod' = Some(ImportedModule(args.training_script, m))
    /\ UNCHANGED <<cmd, cli, args, default_config_exists, defaults, config_loads,
                   launched, env_heap, environ0, children, returncode,
                   sys_argv, xmp_spawned>>

\* launch.py 107-109
TpuSpawn ==
    /\ pc = "tpu_spawn"
    /\ sys_argv' = TpuArgv(args)
    /\ IF HasMpFn(mod)
       THEN /\ xmp_spawned' = Append(xmp_spawned, args.num_processes[1])
            /\ pc' = "done"
            /\ error' = error
       ELSE /\ error' = AttributeError
            /\ pc' = "failed"
            /\ UNCHANGED xmp_spawned
    /\ UNCHANGED <<cmd, cli, args, default_config_exists, defaults, config_loads,
                   launched, env_heap, environ0, children, returncode,
                   sys_path, mod>>

Next ==
    \/ SanityCheck
    \/ GetDefaults
    \/ UseLauncher
    \/ SimpleLaunch
    \/ SimpleWait
    \/ MultiGpuLaunch
    \/ MultiGpuWait
    \/ TpuImport
    \/ TpuSpawn

Spec == Init /\ [][Next]_vars

-----------------------------------------------------------------------------
(* Properties *)

Loaded == defaults # None
Resolved == pc \notin {"sanity_check", "get_defaults"} /\ error.type # "ValueError"
Finished == pc \in {"done", "failed"}
UsesSubprocess == launched # <<>> /\ launched[1] \in {"simple_launcher", "multi_gpu_launcher"}

\* C1: when both --multi_gpu and --tpu are requested, launch_command fails
\* with ValueError, and it does so before any configuration is loaded, any
\* launcher is called, any child process is created or any TPU worker is
\* spawned, whatever the other parameters and the configuration files.
C1_BothModesRejectedFirst ==
    (cli.multi_gpu /\ cli.tpu /\ pc # "sanity_check") =>
        /\ pc = "failed"
        /\ error.type = "ValueError"
        /\ config_loads = 0
        /\ defaults = None
        /\ launched = <<>>
        /\ children = <<>>
        /\ xmp_spawned = <<>>
        /\ args = cli

C1_Witness ==
    /\ cli.multi_gpu /\ cli.tpu
    /\ cli.config_file # None
    /\ default_config_exists
    /\ pc = "failed"

\* C2: after defaults resolution each of num_processes, fp16 and the mode is
\* the command-line value when the caller set it, else the persisted value
\* when a configuration was loaded (explicit config_file or existing default
\* file), else the built-in default (1, False, single process).
C2_DefaultsResolution ==
    Resolved =>
        /\ Loaded <=> (cli.config_file # None \/ default_config_exists)
        /\ config_loads = (IF Loaded THEN 1 ELSE 0)
        /\ args.num_processes =
              (IF cli.num_processes # None THEN cli.num_processes
               ELSE IF Loaded THEN <<defaults[1].num_processes>>
               ELSE <<1>>)
        /\ args.fp16 =
              (IF cli.fp16 THEN TRUE
               ELSE IF Loaded THEN defaults[1].fp16
               ELSE FALSE)
        /\ IF cli.multi_gpu \/ cli.tpu
           THEN args.multi_gpu = cli.multi_gpu /\ args.tpu = cli.tpu
           ELSE IF Loaded
           THEN /\ args.multi_gpu = (defaults[1].distributed_type = "MULTI_GPU")
                /\ args.tpu = (defaults[1].distributed_type = "TPU")
           ELSE ~args.multi_gpu /\ ~args.tpu

C2_Witness ==
    /\ Resolved
    /\ Loaded
    /\ cli.num_processes = <<2>>
    /\ defaults[1].num_processes = 1
    /\ cli.tpu
    /\ defaults[1].distributed_type = "MULTI_GPU"
    /\ cli.fp16
    /\ ~defaults[1].fp16

\* C3: an invocation that passes the sanity check calls exactly one launcher,
\* once, and it is the one of the resolved mode (multi_gpu, else tpu, else
\* simple); a loaded MULTI_GPU configuration with neither flag on the command
\* line selects multi_gpu_launcher; multi_gpu and tpu are never both set
\* after resolution; only the launcher called does any launching.
C3_ExactlyOneLauncher ==
    /\ Len(launched) <= 1
    /\ pc \in {"sanity_check", "get_defaults", "use_launcher"} => launched = <<>>
    /\ error.type = "ValueError" => launched = <<>>
    /\ Resolved => ~(args.multi_gpu /\ args.tpu)
    /\ (Resolved /\ pc # "use_launcher") =>
          /\ Len(launched) = 1
          /\ launched[1] = (IF args.multi_gpu THEN "multi_gpu_launcher"
                            ELSE IF args.tpu THEN "tpu_launcher"
                            ELSE "simple_launcher")
          /\ (Loaded /\ ~cli.multi_gpu /\ ~cli.tpu
                /\ defaults[1].distributed_type = "MULTI_GPU")
                => launched[1] = "multi_gpu_launcher"
          /\ children # <<>> => UsesSubprocess
          /\ (xmp_spawned # <<>> \/ mod # None) => launched[1] = "tpu_launcher"

C3_Witness ==
    /\ Finished
    /\ Loaded
    /\ ~cli.multi_gpu /\ ~cli.tpu
    /\ defaults[1].distributed_type = "MULTI_GPU"
    /\ launched = <<"multi_gpu_launcher">>

\* C4: a subprocess launcher spawns its child once and waits for it; a
\* non-zero exit status k makes launch_command fail with CalledProcessError
\* carrying k and the command list the child was spawned with; status 0
\* makes it return normally.
C4_ChildFailurePropagated ==
    /\ Len(children) <= 1
    /\ returncode # None =>
          /\ Len(children) = 1
          /\ Finished
          /\ IF returncode[1] # 0
             THEN /\ pc = "failed"
                  /\ error.type = "CalledProcessError"
                  /\ error.returncode = returncode[1]
                  /\ error.cmd = children[1].cmd
             ELSE pc = "done" /\ error.type = "none"
    /\ (UsesSubprocess /\ pc = "done") => returncode = <<0>>
    /\ error.type = "CalledProcessError" => returncode # None

C4_Witness ==
    /\ launched = <<"multi_gpu_launcher">>
    /\ returncode = <<2>>
    /\ pc = "failed"
    /\ error.returncode = 2
    /\ Len(error.cmd) > 2

\* C5: simple_launcher spawns [interpreter, script, a1, ..., an] with the
\* script arguments verbatim and in order, and the child's environment holds
\* USE_FP16 set to the string form of the resolved fp16.
C5_SimpleCommand ==
    (launched = <<"simple_launcher">> /\ pc # "simple_launcher") =>
        /\ Len(children) = 1
        /\ Len(children[1].cmd) = 2 + Len(cli.training_script_args)
        /\ children[1].cmd[1] = "python"
        /\ children[1].cmd[2] = cli.training_script
        /\ \A i \in 1..Len(cli.training_script_args) :
              children[1].cmd[2 + i] = cli.training_script_args[i]
        /\ "USE_FP16" \in DOMAIN children[1].env
        /\ children[1].env["USE_FP16"] = (IF args.fp16 THEN "True" ELSE "False")

C5_Witness ==
    /\ launched = <<"simple_launcher">>
    /\ children # <<>>
    /\ children[1].cmd = <<"python", "train.py", "--epochs", "3">>
    /\ children[1].env["USE_FP16"] = "True"

\* the part of a multi_gpu command that precedes the script and its arguments
HelperPart(c, a) == SubSeq(c, 1, Len(c) - 1 - Len(a.training_script_args))
FlagValues(c, flag) == {c[i + 1] : i \in {j \in 1..(Len(c) - 1) : c[j] = flag}}
TopologyFlags == {"--nproc_per_node", "--nnodes", "--node_rank", "--master_addr"}

\* C6: with a main process address, the multi_gpu command carries the
\* per-node process count num_processes // num_machines, the machine count,
\* the machine rank, the coordinator address and the coordinator port, each
\* under its own flag: the node-rank flag carries only the rank, the
\* per-node count flag only the divided count, and the port has a flag of
\* its own.
C6_MultiNodeFlags ==
    (launched = <<"multi_gpu_launcher">> /\ children # <<>>
        /\ args.main_process_ip # None) =>
        LET h == HelperPart(children[1].cmd, args)
        IN /\ FlagValues(h, "--nproc_per_node") =
                 {ToString(args.num_processes[1] \div args.num_machines)}
           /\ FlagValues(h, "--nnodes") = {ToString(args.num_machines)}
           /\ FlagValues(h, "--node_rank") = {ToString(args.machine_rank)}
           /\ FlagValues(h, "--master_addr") = {args.main_process_ip[1]}
           /\ \E i \in 1..(Len(h) - 1) :
                 /\ h[i + 1] = ToString(args.main_process_port[1])
                 /\ h[i] \notin TopologyFlags

\* C7: for a Namespace produced by the launch parser that selects the
\* multi_gpu launcher, multi_gpu_launcher builds the helper command (local
\* process count, then the script and its arguments verbatim at the end)
\* and spawns the child with USE_FP16 in its environment; it does not fail
\* before the spawn for want of a multi-node field.
C7_ParserNamespaceReachesSpawn ==
    ("main_process_ip" \notin DOMAIN cli /\ launched = <<"multi_gpu_launcher">>
        /\ pc # "multi_gpu_launcher") =>
        /\ error.type # "AttributeError"
        /\ Len(children) = 1
        /\ LET c == children[1].cmd
               n == Len(cli.training_script_args)
           IN /\ Len(c) >= 1 + n
              /\ SubSeq(c, Len(c) - n, Len(c)) =
                    <<cli.training_script>> \o cli.training_script_args
              /\ ToString(args.num_processes[1])
                    \in FlagValues(HelperPart(c, args), "--nproc_per_node")
        /\ "USE_FP16" \in DOMAIN children[1].env

\* C8: the launcher writes USE_FP16 only to a copy of the environment:
\* os.environ is at every point what it was when launch_command was called,
\* and the child's environment is that environment with USE_FP16 set to the
\* string form of fp16.
C8_EnvironmentIsolation ==
    /\ env_heap[1] = environ0
    /\ \A i \in 1..Len(children) :
          LET e == children[i].env
          IN /\ DOMAIN e = DOMAIN environ0 \cup {"USE_FP16"}
             /\ e["USE_FP16"] = (IF args.fp16 THEN "True" ELSE "False")
             /\ \A k \in DOMAIN environ0 \ {"USE_FP16"} : e[k] = environ0[k]

C8_Witness ==
    /\ Finished
    /\ children # <<>>
    /\ "USE_FP16" \in DOMAIN environ0
    /\ environ0["USE_FP16"] = "1"
    /\ children[1].env["USE_FP16"] = "False"
    /\ children[1].env["PATH"] = "/usr/bin"

\* C9: when a launcher is called num_processes is set and at least 1,
\* whatever --num_processes, the persisted value and the configuration
\* files; so is every process count handed to the TPU spawn facility.
C9_PositiveNumProcesses ==
    /\ launched # <<>> =>
          /\ args.num_processes # None
          /\ args.num_processes[1] >= 1
    /\ \A i \in 1..Len(xmp_spawned) : xmp_spawned[i] >= 1

TpuOutcome(missing_entry_error) ==
    launched = <<"tpu_launcher">> =>
        /\ children = <<>>
        /\ Len(xmp_spawned) <= 1
        /\ pc = "failed" =>
              /\ xmp_spawned = <<>>
              /\ error.type = (IF mod # <<>> /\ ~mod[1].has_mp_fn
                               THEN missing_entry_error
                               ELSE "ImportError")
        /\ pc = "done" => xmp_spawned # <<>>
        /\ xmp_spawned # <<>> =>
              /\ mod # <<>> /\ mod[1].has_mp_fn
              /\ pc = "done"
              /\ xmp_spawned = <<args.num_processes[1]>>
              /\ sys_argv = <<cli.training_script>> \o cli.training_script_args
                              \o <<"--tpu_num_cores", ToString(args.num_processes[1])>>

\* C10 as stated: tpu_launcher creates no subprocess; a training module that
\* cannot be loaded, or one without _mp_fn, makes launch_command fail with
\* ImportError with no replica spawned; otherwise xmp.spawn is called once
\* with num_processes replicas and sys.argv rewritten to the script, its
\* arguments and --tpu_num_cores num_processes.
C10_MissingEntryIsImportError == TpuOutcome("ImportError")

\* C10 as amended: as above, except that a loaded module without _mp_fn
\* makes launch_command fail with AttributeError (sys.argv already
\* rewritten).
C10_MissingEntryIsAttributeError ==
    /\ TpuOutcome("AttributeError")
    /\ (launched = <<"tpu_launcher">> /\ pc = "failed" /\ mod # None) =>
          sys_argv = <<cli.training_script>> \o cli.training_script_args
                       \o <<"--tpu_num_cores", ToString(args.num_processes[1])>>

C10_Witness ==
    /\ launched = <<"tpu_launcher">>
    /\ pc = "failed"
    /\ mod = <<[name |-> "bar", has_mp_fn |-> FALSE]>>
    /\ error.type = "AttributeError"
    /\ xmp_spawned = <<>>
    /\ sys_argv[Len(sys_argv) - 1] = "--tpu_num_cores"

====
